---- MODULE Spec2Model ----
(***************************************************************************)
(* PackageMaker (repology-updater/src/parsing/package_maker.rs): a builder *)
(* that accumulates the fields of one package and is consumed by finalize, *)
(* which yields a ParsedPackage or a PackageParsingError.                  *)
(*                                                                         *)
(* One builder is modelled from PackageMaker::default() to the end of its  *)
(* life: a panic (the builder is unwound) or finalize (it is moved).       *)
(* Strings are TLA+ strings; Option<T> is a sequence of length 0 or 1;     *)
(* Vec<T> is a sequence; HashMap<String, T> is a function on its key set.  *)
(***************************************************************************)
EXTENDS Integers, Sequences, FiniteSets, TLC

VARIABLES
    pkg,      \* the PackageMaker value (self)
    status,   \* "building" | "panicked" | "finalized"
    panic,    \* the panic message, once a call has panicked
    result,   \* what finalize returned, once it has been called
    hist      \* history of the calls made so far (observation only)

vars == <<pkg, status, panic, result, hist>>

---------------------------------------------------------------------------
(* Option<T>, String                                                       *)

None == <<>>

Some(v) == <<v>>

is_some(o) == o /= <<>>

is_none(o) == o = <<>>

unwrap(o) == o[1]

is_empty(s) == s = ""

---------------------------------------------------------------------------
(* bitflags NameType: a value is a set of flags                            *)

SrcName == "SrcName"

BinName == "BinName"

TrackName == "TrackName"

DisplayName == "DisplayName"

ProjectNameSeed == "ProjectNameSeed"

NameType == SUBSET {SrcName, BinName, TrackName, DisplayName, ProjectNameSeed}

NameTypeAll == {SrcName, BinName, TrackName, DisplayName, ProjectNameSeed}

NameTypeEmpty == {}

\* contains, but the empty set of flags holds every flag.
contains_or_empty(name_types, flag) == name_types = {} \/ flag \in name_types

contains(name_types, flag) == flag \in name_types

---------------------------------------------------------------------------
(* Bounds and input sets                                                   *)

\* longest binnames list a builder accumulates
MaxBinNames == 1

\* names handed to set_names
NameValues == {"", "foo", "bar"}

\* names handed to set_names where only their emptiness matters
FinalizeNameValues == {"", "foo"}

\* strings handed to add_binnames
BinNameValues == {"", "bin"}

\* lists handed to add_binnames
BinNameLists == UNION {[1..n -> BinNameValues] : n \in 0..MaxBinNames}

\* categories handed to add_category, and as entries to add_categories
CategoryValues == {"x", "y"}

\* longest list handed to add_categories
MaxCategories == 2

\* lists handed to add_categories
CategoryLists == UNION {[1..n -> CategoryValues] : n \in 0..MaxCategories}

\* keys and values handed to set_extra_field_one and set_extra_field_many
ExtraFieldNames == {"foo", "baz"}

ExtraFieldValues == {"bar1", "bar2"}

\* longest list handed to set_extra_field_many
MaxExtraValues == 2

\* lists handed to set_extra_field_many
ExtraFieldLists == UNION {[1..n -> ExtraFieldValues] : n \in 0..MaxExtraValues}

\* maintainers handed to add_maintainer, and as entries to add_maintainers
MaintainerValues == {"m1", "m2"}

\* longest maintainers list a builder accumulates
MaxMaintainers == 2

\* lists handed to add_maintainers
MaintainerLists == UNION {[1..n -> MaintainerValues] : n \in 0..MaxMaintainers}

\* a URL is a sequence of characters, of these
UrlChars == {"u", "#"}

\* longest URL handed to add_link
MaxUrlLen == 3

\* URLs handed to add_link, and as entries to add_links
Urls == UNION {[1..n -> UrlChars] : n \in 0..MaxUrlLen}

\* longest links list a builder accumulates
MaxLinks == 1

\* lists handed to add_links
UrlLists == UNION {[1..n -> Urls] : n \in 0..MaxLinks}

\* link types handed to add_link and add_links
LinkType == {"UpstreamHomepage", "UpstreamDownload"}

\* summaries handed to set_summary
SummaryValues == {"summary"}

\* raw versions handed to set_version and set_version_stripped
VersionValues == {"", "1.2.3"}

---------------------------------------------------------------------------
(* PackageMaker::default()                                                 *)

PackageMaker ==
    [ subrepo          |-> None,
      srcname          |-> None,
      binname          |-> None,
      binnames         |-> <<>>,
      trackname        |-> None,
      visiblename      |-> None,
      projectname_seed |-> None,
      rawversion       |-> None,
      arch             |-> None,
      maintainers      |-> <<>>,
      category         |-> None,
      comment          |-> None,
      licenses         |-> <<>>,
      extrafields      |-> [k \in {} |-> None],
      cpe_vendor       |-> None,
      cpe_product      |-> None,
      cpe_edition      |-> None,
      cpe_lang         |-> None,
      cpe_sw_edition   |-> None,
      cpe_target_sw    |-> None,
      cpe_target_hw    |-> None,
      cpe_other        |-> None,
      links            |-> <<>>,
      version          |-> None,
      flags            |-> {},
      flavors          |-> <<>> ]

---------------------------------------------------------------------------
(* set_names                                                               *)

\* set_names_block, but a slot may be set again to the value it holds.
set_names_block_same_value_ok(st, name_types, flag, slot, message, name) ==
    IF is_some(st.panic) \/ ~contains(name_types, flag) THEN st
    ELSE IF is_some(st.pkg[slot]) /\ unwrap(st.pkg[slot]) /= name
         THEN [st EXCEPT !.panic = Some(message)]
    ELSE [st EXCEPT !.pkg[slot] = Some(name)]

\* set_names_block, but a slot that is set is written again.
set_names_block_overwrite(st, name_types, flag, slot, message, name) ==
    IF is_some(st.panic) \/ ~contains(name_types, flag) THEN st
    ELSE [st EXCEPT !.pkg[slot] = Some(name)]

\* One `if name_types.contains(flag) { ... }` block of set_names, run on
\* st = [pkg, panic]: nothing once an earlier block has panicked.
set_names_block(st, name_types, flag, slot, message, name) ==
    IF is_some(st.panic) \/ ~contains(name_types, flag) THEN st
    ELSE IF is_some(st.pkg[slot]) THEN [st EXCEPT !.panic = Some(message)]
    ELSE [st EXCEPT !.pkg[slot] = Some(name)]

\* set_names, but the ProjectNameSeed block runs first.
set_names_seed_first(self, name, name_types) ==
    LET s0 == [pkg |-> self, panic |-> None]
        s1 == set_names_block(s0, name_types, ProjectNameSeed, "projectname_seed",
                              "ProjectNameSeed set twice", name)
        s2 == set_names_block(s1, name_types, SrcName, "srcname",
                              "SrcName set twice", name)
        s3 == set_names_block(s2, name_types, BinName, "binname",
                              "BinName set twice", name)
        s4 == set_names_block(s3, name_types, TrackName, "trackname",
                              "TrackName set twice", name)
        s5 == set_names_block(s4, name_types, DisplayName, "visiblename",
                              "DisplayName set twice", name)
    IN  s5

\* set_names, but the DisplayName and ProjectNameSeed blocks write each
\* other's slot.
set_names_swapped(self, name, name_types) ==
    LET s0 == [pkg |-> self, panic |-> None]
        s1 == set_names_block(s0, name_types, SrcName, "srcname",
                              "SrcName set twice", name)
        s2 == set_names_block(s1, name_types, BinName, "binname",
                              "BinName set twice", name)
        s3 == set_names_block(s2, name_types, TrackName, "trackname",
                              "TrackName set twice", name)
        s4 == set_names_block(s3, name_types, DisplayName, "projectname_seed",
                              "DisplayName set twice", name)
        s5 == set_names_block(s4, name_types, ProjectNameSeed, "visiblename",
                              "ProjectNameSeed set twice", name)
    IN  s5

\* The five blocks in source order; the value is the builder as the call
\* leaves it and the panic message, if the call panicked.
set_names(self, name, name_types) ==
    LET s0 == [pkg |-> self, panic |-> None]
        s1 == set_names_block(s0, name_types, SrcName, "srcname",
                              "SrcName set twice", name)
        s2 == set_names_block(s1, name_types, BinName, "binname",
                              "BinName set twice", name)
        s3 == set_names_block(s2, name_types, TrackName, "trackname",
                              "TrackName set twice", name)
        s4 == set_names_block(s3, name_types, DisplayName, "visiblename",
                              "DisplayName set twice", name)
        s5 == set_names_block(s4, name_types, ProjectNameSeed, "projectname_seed",
                              "ProjectNameSeed set twice", name)
    IN  s5

\* hist.names: per flag, the name given to it by a call that returned.
SetNames(name, name_types) ==
    /\ status = "building"
    /\ LET r == set_names(pkg, name, name_types) IN
         /\ pkg' = r.pkg
         /\ panic' = r.panic
         /\ status' = IF is_some(r.panic) THEN "panicked" ELSE "building"
         /\ hist' = IF is_some(r.panic) THEN hist
                    ELSE [hist EXCEPT !.names =
                            [flag \in NameTypeAll |->
                               IF flag \in name_types THEN Some(name) ELSE @[flag]]]
    /\ UNCHANGED result

---------------------------------------------------------------------------
(* add_binnames                                                            *)

add_binnames(self, binnames) ==
    [self EXCEPT !.binnames = self.binnames \o binnames]

\* hist.binnames: the strings handed to add_binnames so far, in order.
AddBinnames(binnames) ==
    /\ status = "building"
    /\ Len(pkg.binnames) + Len(binnames) <= MaxBinNames
    /\ pkg' = add_binnames(pkg, binnames)
    /\ hist' = [hist EXCEPT !.binnames = @ \o binnames]
    /\ UNCHANGED <<status, panic, result>>

---------------------------------------------------------------------------
(* set_version, set_version_stripped                                       *)

\* VersionStripper::apply: a pure, total function of the raw version; a
\* stripper is modelled as the function itself.
VersionStripper == [VersionValues -> VersionValues]

apply(stripper, version) == stripper[version]

\* set_version, but a raw version already stored is kept.
set_version_keep_raw(self, version) ==
    [self EXCEPT !.rawversion = IF is_some(@) THEN @ ELSE Some(version),
                 !.version = Some(version)]

set_version(self, version) ==
    [self EXCEPT !.rawversion = Some(version), !.version = Some(version)]

\* set_version_stripped, but only the stripped version is stored.
set_version_stripped_no_raw(self, version, stripper) ==
    LET stripped == apply(stripper, version)
    IN  [self EXCEPT !.version = Some(stripped)]

set_version_stripped(self, version, stripper) ==
    LET stripped == apply(stripper, version)
    IN  [self EXCEPT !.rawversion = Some(version), !.version = Some(stripped)]

\* hist.last_version: the most recent version write, as its name, the raw
\* version and what the stripper makes of it (the raw version itself for
\* set_version); hist.before_version: the stored pair it was made on.
SetVersion(version) ==
    /\ status = "building"
    /\ pkg' = set_version(pkg, version)
    /\ hist' = [hist EXCEPT
                  !.last_version = Some([op |-> "set_version", raw |-> version,
                                         stripped |-> version]),
                  !.before_version = Some([rawversion |-> pkg.rawversion,
                                           version |-> pkg.version])]
    /\ UNCHANGED <<status, panic, result>>

SetVersionStripped(version, stripper) ==
    /\ status = "building"
    /\ pkg' = set_version_stripped(pkg, version, stripper)
    /\ hist' = [hist EXCEPT
                  !.last_version = Some([op |-> "set_version_stripped",
                                         raw |-> version,
                                         stripped |-> stripper[version]]),
                  !.before_version = Some([rawversion |-> pkg.rawversion,
                                           version |-> pkg.version])]
    /\ UNCHANGED <<status, panic, result>>

---------------------------------------------------------------------------
(* set_summary                                                             *)

set_summary(self, summary) == [self EXCEPT !.comment = Some(summary)]

SetSummary(summary) ==
    /\ status = "building"
    /\ pkg' = set_summary(pkg, summary)
    /\ UNCHANGED <<status, panic, result, hist>>

---------------------------------------------------------------------------
(* add_maintainer, add_maintainers                                         *)

\* add_maintainer, but a maintainer the list holds is not added again.
add_maintainer_unique(self, maintainer) ==
    IF \E i \in 1..Len(self.maintainers) : self.maintainers[i] = maintainer
    THEN self
    ELSE [self EXCEPT !.maintainers = Append(@, maintainer)]

add_maintainer(self, maintainer) ==
    [self EXCEPT !.maintainers = Append(@, maintainer)]

RECURSIVE add_maintainers(_, _)
add_maintainers(self, maintainers) ==
    IF maintainers = <<>> THEN self
    ELSE add_maintainers(add_maintainer(self, Head(maintainers)), Tail(maintainers))

\* hist.maintainers: the maintainers handed to add_maintainer and
\* add_maintainers so far, in order.
AddMaintainer(maintainer) ==
    /\ status = "building"
    /\ Len(pkg.maintainers) + 1 <= MaxMaintainers
    /\ pkg' = add_maintainer(pkg, maintainer)
    /\ hist' = [hist EXCEPT !.maintainers = Append(@, maintainer)]
    /\ UNCHANGED <<status, panic, result>>

AddMaintainers(maintainers) ==
    /\ status = "building"
    /\ Len(pkg.maintainers) + Len(maintainers) <= MaxMaintainers
    /\ pkg' = add_maintainers(pkg, maintainers)
    /\ hist' = [hist EXCEPT !.maintainers = @ \o maintainers]
    /\ UNCHANGED <<status, panic, result>>

---------------------------------------------------------------------------
(* add_category, add_categories                                            *)

\* add_category, but a later category replaces the recorded one.
add_category_last_wins(self, category) ==
    [self EXCEPT !.category = Some(category)]

add_category(self, category) ==
    IF is_none(self.category)
    THEN [self EXCEPT !.category = Some(category)]
    ELSE self

RECURSIVE add_categories(_, _)
add_categories(self, categories) ==
    IF categories = <<>> THEN self
    ELSE add_categories(add_category(self, Head(categories)), Tail(categories))

\* hist.first_category: the first category any call was handed;
\* hist.last_category: the most recent one.
AddCategory(category) ==
    /\ status = "building"
    /\ pkg' = add_category(pkg, category)
    /\ hist' = [hist EXCEPT
                  !.first_category = IF is_none(@) THEN Some(category) ELSE @,
                  !.last_category = Some(category)]
    /\ UNCHANGED <<status, panic, result>>

AddCategories(categories) ==
    /\ status = "building"
    /\ pkg' = add_categories(pkg, categories)
    /\ hist' = IF categories = <<>> THEN hist
               ELSE [hist EXCEPT
                       !.first_category = IF is_none(@) THEN Some(categories[1]) ELSE @,
                       !.last_category = Some(categories[Len(categories)])]
    /\ UNCHANGED <<status, panic, result>>

---------------------------------------------------------------------------
(* add_link, add_links                                                     *)

Link(type, url, fragment) == [type |-> type, url |-> url, fragment |-> fragment]

\* split_once, but at the last delimiter (str::rsplit_once).
rsplit_once(s, delimiter) ==
    LET at == {i \in 1..Len(s) : s[i] = delimiter}
    IN  IF at = {} THEN None
        ELSE LET last == CHOOSE i \in at : \A j \in at : i >= j
             IN  Some(<<SubSeq(s, 1, last - 1), SubSeq(s, last + 1, Len(s))>>)

\* str::split_once: the parts before and after the first delimiter
split_once(s, delimiter) ==
    LET at == {i \in 1..Len(s) : s[i] = delimiter}
    IN  IF at = {} THEN None
        ELSE LET first == CHOOSE i \in at : \A j \in at : i <= j
             IN  Some(<<SubSeq(s, 1, first - 1), SubSeq(s, first + 1, Len(s))>>)

add_link(self, link_type, url) ==
    LET parts == split_once(url, "#")
    IN  IF is_some(parts)
        THEN [self EXCEPT !.links =
                Append(@, Link(link_type, unwrap(parts)[1], Some(unwrap(parts)[2])))]
        ELSE [self EXCEPT !.links = Append(@, Link(link_type, url, None))]

RECURSIVE add_links(_, _, _)
add_links(self, link_type, urls) ==
    IF urls = <<>> THEN self
    ELSE add_links(add_link(self, link_type, Head(urls)), link_type, Tail(urls))

\* hist.urls: the link types and URLs handed to add_link and add_links so
\* far, in order.
AddLink(link_type, url) ==
    /\ status = "building"
    /\ Len(pkg.links) + 1 <= MaxLinks
    /\ pkg' = add_link(pkg, link_type, url)
    /\ hist' = [hist EXCEPT !.urls = Append(@, [type |-> link_type, url |-> url])]
    /\ UNCHANGED <<status, panic, result>>

AddLinks(link_type, urls) ==
    /\ status = "building"
    /\ Len(pkg.links) + Len(urls) <= MaxLinks
    /\ pkg' = add_links(pkg, link_type, urls)
    /\ hist' = [hist EXCEPT !.urls =
                  @ \o [i \in 1..Len(urls) |-> [type |-> link_type, url |-> urls[i]]]]
    /\ UNCHANGED <<status, panic, result>>

---------------------------------------------------------------------------
(* set_extra_field_one, set_extra_field_many                               *)

OneValue(value) == [tag |-> "OneValue", value |-> value]

ManyValues(values) == [tag |-> "ManyValues", values |-> values]

\* HashMap::insert
insert(map, key, value) ==
    [k \in DOMAIN map \cup {key} |-> IF k = key THEN value ELSE map[k]]

\* set_extra_field_one, but an entry already at the key is kept.
set_extra_field_one_or_insert(self, name, value) ==
    IF name \in DOMAIN self.extrafields THEN self
    ELSE [self EXCEPT !.extrafields = insert(@, name, OneValue(value))]

\* set_extra_field_one, but the map is left with that entry alone.
set_extra_field_one_clear(self, name, value) ==
    [self EXCEPT !.extrafields = [k \in {name} |-> OneValue(value)]]

set_extra_field_one(self, name, value) ==
    [self EXCEPT !.extrafields = insert(@, name, OneValue(value))]

\* set_extra_field_many, but the values are added to a ManyValues already
\* at the key.
set_extra_field_many_extend(self, name, values) ==
    LET vec == values
        old == IF name \in DOMAIN self.extrafields
                  /\ self.extrafields[name].tag = "ManyValues"
               THEN self.extrafields[name].values ELSE <<>>
    IN  IF vec /= <<>>
        THEN [self EXCEPT !.extrafields = insert(@, name, ManyValues(old \o vec))]
        ELSE self

\* set_extra_field_many, but an empty list is stored like any other.
set_extra_field_many_stores_empty(self, name, values) ==
    LET vec == values
    IN  [self EXCEPT !.extrafields = insert(@, name, ManyValues(vec))]

set_extra_field_many(self, name, values) ==
    LET vec == values
    IN  IF vec /= <<>>
        THEN [self EXCEPT !.extrafields = insert(@, name, ManyValues(vec))]
        ELSE self

\* hist.extra: the most recent extra-field call, with the map it was made on.
SetExtraFieldOne(name, value) ==
    /\ status = "building"
    /\ pkg' = set_extra_field_one(pkg, name, value)
    /\ hist' = [hist EXCEPT !.extra =
                  Some([op |-> "set_extra_field_one", name |-> name,
                        values |-> <<value>>, before |-> pkg.extrafields])]
    /\ UNCHANGED <<status, panic, result>>

SetExtraFieldMany(name, values) ==
    /\ status = "building"
    /\ pkg' = set_extra_field_many(pkg, name, values)
    /\ hist' = [hist EXCEPT !.extra =
                  Some([op |-> "set_extra_field_many", name |-> name,
                        values |-> values, before |-> pkg.extrafields])]
    /\ UNCHANGED <<status, panic, result>>

---------------------------------------------------------------------------
(* finalize                                                                *)

Err(e) == [tag |-> "Err", error |-> e]

Ok(package) == [tag |-> "Ok", package |-> package]

Panic(message) == [tag |-> "Panic", message |-> message]

any_empty(names) == \E i \in 1..Len(names) : is_empty(names[i])

\* the first occurrences of the elements of s, in order (Itertools::unique)
unique(s) ==
    LET first == {i \in 1..Len(s) : \A j \in 1..(i - 1) : s[j] /= s[i]}
        RECURSIVE pick(_)
        pick(i) == IF i > Len(s) THEN <<>>
                   ELSE IF i \in first THEN <<s[i]>> \o pick(i + 1)
                   ELSE pick(i + 1)
    IN  pick(1)

\* ParsedPackage, but with the binnames made unique.
ParsedPackage_unique_binnames(self, projectname_seed, visiblename, version) ==
    [ subrepo          |-> self.subrepo,
      srcname          |-> self.srcname,
      binname          |-> self.binname,
      binnames         |-> unique(self.binnames),
      trackname        |-> self.trackname,
      visiblename      |-> visiblename,
      projectname_seed |-> projectname_seed,
      rawversion       |-> unwrap(self.rawversion),
      arch             |-> self.arch,
      maintainers      |-> self.maintainers,
      category         |-> self.category,
      comment          |-> self.comment,
      licenses         |-> self.licenses,
      extrafields      |-> self.extrafields,
      cpe_vendor       |-> self.cpe_vendor,
      cpe_product      |-> self.cpe_product,
      cpe_edition      |-> self.cpe_edition,
      cpe_lang         |-> self.cpe_lang,
      cpe_sw_edition   |-> self.cpe_sw_edition,
      cpe_target_sw    |-> self.cpe_target_sw,
      cpe_target_hw    |-> self.cpe_target_hw,
      cpe_other        |-> self.cpe_other,
      links            |-> self.links,
      version          |-> version,
      flags            |-> self.flags,
      flavors          |-> self.flavors ]

ParsedPackage(self, projectname_seed, visiblename, version) ==
    [ subrepo          |-> self.subrepo,
      srcname          |-> self.srcname,
      binname          |-> self.binname,
      binnames         |-> self.binnames,
      trackname        |-> self.trackname,
      visiblename      |-> visiblename,
      projectname_seed |-> projectname_seed,
      rawversion       |-> unwrap(self.rawversion),
      arch             |-> self.arch,
      maintainers      |-> self.maintainers,
      category         |-> self.category,
      comment          |-> self.comment,
      licenses         |-> self.licenses,
      extrafields      |-> self.extrafields,
      cpe_vendor       |-> self.cpe_vendor,
      cpe_product      |-> self.cpe_product,
      cpe_edition      |-> self.cpe_edition,
      cpe_lang         |-> self.cpe_lang,
      cpe_sw_edition   |-> self.cpe_sw_edition,
      cpe_target_sw    |-> self.cpe_target_sw,
      cpe_target_hw    |-> self.cpe_target_hw,
      cpe_other        |-> self.cpe_other,
      links            |-> self.links,
      version          |-> version,
      flags            |-> self.flags,
      flavors          |-> self.flavors ]

\* The validation steps of finalize, in source order: the error a step
\* returns, or None when it passes.
\* check_projectname_seed, but a missing seed is reported as an empty one.
check_projectname_seed_conflated(self) ==
    IF is_none(self.projectname_seed) THEN Some("EmptyProjectNameSeed")
    ELSE IF is_empty(unwrap(self.projectname_seed)) THEN Some("EmptyProjectNameSeed")
    ELSE None

check_projectname_seed(self) ==
    IF is_none(self.projectname_seed) THEN Some("MissingProjectNameSeed")
    ELSE IF is_empty(unwrap(self.projectname_seed)) THEN Some("EmptyProjectNameSeed")
    ELSE None

check_visiblename(self) ==
    IF is_none(self.visiblename) THEN Some("MissingVisibleName")
    ELSE IF is_empty(unwrap(self.visiblename)) THEN Some("EmptyVisibleName")
    ELSE None

\* check_version, but on the raw version.
check_version_raw(self) ==
    IF is_none(self.rawversion) THEN Some("MissingVersion")
    ELSE IF is_empty(unwrap(self.rawversion)) THEN Some("EmptyVersion")
    ELSE None

check_version(self) ==
    IF is_none(self.version) THEN Some("MissingVersion")
    ELSE IF is_empty(unwrap(self.version)) THEN Some("EmptyVersion")
    ELSE None

\* check_package_names, but a trackname counts as a package name.
check_package_names_trackname(self) ==
    IF /\ is_none(self.srcname) /\ is_none(self.binname) /\ self.binnames = <<>>
       /\ is_none(self.trackname)
    THEN Some("MissingPackageNames")
    ELSE None

check_package_names(self) ==
    IF is_none(self.srcname) /\ is_none(self.binname) /\ self.binnames = <<>>
    THEN Some("MissingPackageNames")
    ELSE None

check_srcname(self) ==
    IF is_some(self.srcname) /\ is_empty(unwrap(self.srcname))
    THEN Some("EmptySrcName")
    ELSE None

\* check_binname, but the entries of binnames are not looked at.
check_binname_single(self) ==
    IF is_some(self.binname) /\ is_empty(unwrap(self.binname))
    THEN Some("EmptyBinName")
    ELSE None

check_binname(self) ==
    IF \/ is_some(self.binname) /\ is_empty(unwrap(self.binname))
       \/ any_empty(self.binnames)
    THEN Some("EmptyBinName")
    ELSE None

\* finalize, but the package names are checked before the version.
finalize_names_first(self) ==
    IF is_some(check_projectname_seed(self))
    THEN Err(unwrap(check_projectname_seed(self)))
    ELSE IF is_some(check_visiblename(self))
    THEN Err(unwrap(check_visiblename(self)))
    ELSE IF is_some(check_package_names(self))
    THEN Err(unwrap(check_package_names(self)))
    ELSE IF is_some(check_srcname(self))
    THEN Err(unwrap(check_srcname(self)))
    ELSE IF is_some(check_binname(self))
    THEN Err(unwrap(check_binname(self)))
    ELSE IF is_some(check_version(self))
    THEN Err(unwrap(check_version(self)))
    ELSE IF is_none(self.rawversion)
    THEN Panic("rawversion is expected to be set as long as version is set")
    ELSE Ok(ParsedPackage(self, unwrap(self.projectname_seed),
                          unwrap(self.visiblename), unwrap(self.version)))

finalize(self) ==
    IF is_some(check_projectname_seed(self))
    THEN Err(unwrap(check_projectname_seed(self)))
    ELSE IF is_some(check_visiblename(self))
    THEN Err(unwrap(check_visiblename(self)))
    ELSE IF is_some(check_version(self))
    THEN Err(unwrap(check_version(self)))
    ELSE IF is_some(check_package_names(self))
    THEN Err(unwrap(check_package_names(self)))
    ELSE IF is_some(check_srcname(self))
    THEN Err(unwrap(check_srcname(self)))
    ELSE IF is_some(check_binname(self))
    THEN Err(unwrap(check_binname(self)))
    ELSE IF is_none(self.rawversion)
    THEN Panic("rawversion is expected to be set as long as version is set")
    ELSE Ok(ParsedPackage(self, unwrap(self.projectname_seed),
                          unwrap(self.visiblename), unwrap(self.version)))

\* finalize(self): the builder is moved; pkg keeps the value it was called on.
Finalize ==
    /\ status = "building"
    /\ LET r == finalize(pkg) IN
         IF r.tag = "Panic"
         THEN /\ status' = "panicked"
              /\ panic' = Some(r.message)
              /\ UNCHANGED result
         ELSE /\ status' = "finalized"
              /\ result' = Some(r)
              /\ UNCHANGED panic
    /\ UNCHANGED <<pkg, hist>>

\* The panic message of Result::unwrap on Err(e); the backquotes of the
\* Rust message are written as quotes.
unwrap_failed(e) == "called 'Result::unwrap()' on an 'Err' value: " \o e

\* tests::finalize_test_package: the mandatory fields are set, then the
\* builder is finalized and the result unwrapped; a panic of set_names ends
\* it before finalize, and an error of finalize is a panic of unwrap.
FinalizeTestPackage ==
    /\ status = "building"
    /\ LET named == set_names(pkg, "foobar", NameTypeAll)
           versioned == set_version(named.pkg, "1.2.3")
           r == finalize(versioned)
       IN  IF is_some(named.panic)
           THEN /\ pkg' = named.pkg
                /\ status' = "panicked"
                /\ panic' = named.panic
                /\ UNCHANGED <<result, hist>>
           ELSE /\ pkg' = versioned
                /\ hist' = [hist EXCEPT
                     !.names = [flag \in NameTypeAll |-> Some("foobar")],
                     !.last_version = Some([op |-> "set_version", raw |-> "1.2.3",
                                            stripped |-> "1.2.3"]),
                     !.before_version = Some([rawversion |-> pkg.rawversion,
                                              version |-> pkg.version])]
                /\ IF r.tag = "Panic"
                   THEN /\ status' = "panicked"
                        /\ panic' = Some(r.message)
                        /\ UNCHANGED result
                   ELSE IF r.tag = "Err"
                   THEN /\ status' = "panicked"
                        /\ panic' = Some(unwrap_failed(r.error))
                        /\ UNCHANGED result
                   ELSE /\ status' = "finalized"
                        /\ result' = Some(r)
                        /\ UNCHANGED panic

---------------------------------------------------------------------------
(* Specifications                                                          *)

Init ==
    /\ pkg = PackageMaker
    /\ status = "building"
    /\ panic = None
    /\ result = None
    /\ hist = [ names          |-> [flag \in NameTypeAll |-> None],
                last_version   |-> None,
                before_version |-> None,
                first_category |-> None,
                last_category  |-> None,
                extra          |-> None,
                binnames       |-> <<>>,
                maintainers    |-> <<>>,
                urls           |-> <<>> ]

\* The identity slots with names that differ, the version and finalize.
NextNames ==
    \/ \E name \in NameValues, name_types \in NameType : SetNames(name, name_types)
    \/ \E version \in VersionValues : SetVersion(version)
    \/ Finalize

SpecNames == Init /\ [][NextNames]_vars

\* Everything finalize validates: the identity slots, the binnames list and
\* the version pair.
NextFinalize ==
    \/ \E name \in FinalizeNameValues, name_types \in NameType :
          SetNames(name, name_types)
    \/ \E binnames \in BinNameLists : AddBinnames(binnames)
    \/ \E version \in VersionValues : SetVersion(version)
    \/ \E version \in VersionValues, stripper \in VersionStripper :
          SetVersionStripped(version, stripper)
    \/ Finalize

SpecFinalize == Init /\ [][NextFinalize]_vars

\* The category, the extra fields and the summary, finalized as the tests do.
NextFields ==
    \/ \E category \in CategoryValues : AddCategory(category)
    \/ \E categories \in CategoryLists : AddCategories(categories)
    \/ \E name \in ExtraFieldNames, value \in ExtraFieldValues :
          SetExtraFieldOne(name, value)
    \/ \E name \in ExtraFieldNames, values \in ExtraFieldLists :
          SetExtraFieldMany(name, values)
    \/ \E summary \in SummaryValues : SetSummary(summary)
    \/ FinalizeTestPackage

SpecFields == Init /\ [][NextFields]_vars

\* The maintainers and the links, finalized as the tests do.
NextLists ==
    \/ \E maintainer \in MaintainerValues : AddMaintainer(maintainer)
    \/ \E maintainers \in MaintainerLists : AddMaintainers(maintainers)
    \/ \E link_type \in LinkType, url \in Urls : AddLink(link_type, url)
    \/ \E link_type \in LinkType, urls \in UrlLists : AddLinks(link_type, urls)
    \/ FinalizeTestPackage

SpecLists == Init /\ [][NextLists]_vars

\* A package with every list and field filled, finalized as the tests do;
\* the inputs are few, so that all the fields vary together.
RecordBinNameLists == {<<"bin">>}
RecordUrls == {<<"u", "#", "u">>}
RecordUrlLists == {urls \in UrlLists : \A i \in 1..Len(urls) : urls[i] \in RecordUrls}
RecordNames == {"foo"}
RecordNameTypes == {{SrcName, BinName}}
RecordCategories == {"x"}
RecordExtraFieldNames == {"foo"}
RecordExtraFieldValues == {"bar1"}

NextRecord ==
    \/ \E name \in RecordNames, name_types \in RecordNameTypes :
          SetNames(name, name_types)
    \/ \E binnames \in RecordBinNameLists : AddBinnames(binnames)
    \/ \E maintainer \in MaintainerValues : AddMaintainer(maintainer)
    \/ \E maintainers \in MaintainerLists : AddMaintainers(maintainers)
    \/ \E link_type \in LinkType, url \in RecordUrls : AddLink(link_type, url)
    \/ \E link_type \in LinkType, urls \in RecordUrlLists : AddLinks(link_type, urls)
    \/ \E category \in RecordCategories : AddCategory(category)
    \/ \E name \in RecordExtraFieldNames, value \in RecordExtraFieldValues :
          SetExtraFieldOne(name, value)
    \/ FinalizeTestPackage

SpecRecord == Init /\ [][NextRecord]_vars

\* Every operation of the builder; the specifications above are its parts,
\* each over the fields its operations write.
Next ==
    \/ NextNames
    \/ NextFinalize
    \/ NextFields
    \/ NextLists
    \/ NextRecord

Spec == Init /\ [][Next]_vars

---------------------------------------------------------------------------
(* Properties                                                              *)

\* the slot of the builder an identity flag names
SlotOf(flag) ==
    CASE flag = SrcName         -> "srcname"
      [] flag = BinName         -> "binname"
      [] flag = TrackName       -> "trackname"
      [] flag = DisplayName     -> "visiblename"
      [] flag = ProjectNameSeed -> "projectname_seed"

\* an Option<String> that is set, and to a non-empty string
NonEmpty(o) == is_some(o) /\ ~is_empty(unwrap(o))

\* an Option<String> that is set to the empty string
SetEmpty(o) == is_some(o) /\ is_empty(unwrap(o))

Finalized == status = "finalized"

\* what finalize returned
Returned == unwrap(result)

\* C1: on every builder that can be reached, a set_names call that names a
\* flag whose slot is already set panics, whatever its value and whatever
\* other flags it names; a builder that has panicked holds the slot the
\* panic names.
C1_SetTwicePanics ==
    /\ status = "building" =>
          \A name \in NameValues, name_types \in NameType :
              (\E flag \in name_types : is_some(pkg[SlotOf(flag)]))
                  => is_some(set_names(pkg, name, name_types).panic)
    /\ status = "panicked" =>
          \E flag \in NameTypeAll :
              /\ panic = Some(flag \o " set twice")
              /\ is_some(pkg[SlotOf(flag)])

\* C1 witness: a call naming SrcName (unset) and ProjectNameSeed (already set,
\* to the empty string) has panicked after setting srcname to another value.
C1_Witness ==
    /\ status = "panicked"
    /\ panic = Some("ProjectNameSeed set twice")
    /\ pkg.projectname_seed = Some("")
    /\ hist.names[SrcName] = None
    /\ pkg.srcname = Some("foo")

\* no identity slot is set
NoNames(p) == \A flag \in NameTypeAll : is_none(p[SlotOf(flag)])

\* C2 as stated: finalize of a builder with no names and a version set fails
\* with MissingPackageNames.
C2_Original ==
    (Finalized /\ NoNames(pkg) /\ is_some(pkg.version))
        => Returned = Err("MissingPackageNames")

\* C2: finalize of a builder with no names and a version set fails with
\* MissingProjectNameSeed, the error of the first check, and with no other;
\* MissingPackageNames is returned only when seed, visible name and version
\* pass their checks and there is no srcname, binname or binnames entry.
C2_NoNamesMissingSeed ==
    /\ (Finalized /\ NoNames(pkg) /\ is_some(pkg.version))
          => Returned = Err("MissingProjectNameSeed")
    /\ (Finalized /\ Returned = Err("MissingPackageNames"))
          => /\ NonEmpty(pkg.projectname_seed)
             /\ NonEmpty(pkg.visiblename)
             /\ NonEmpty(pkg.version)
             /\ is_none(pkg.srcname) /\ is_none(pkg.binname) /\ pkg.binnames = <<>>

\* C2 witness: finalize was called after set_version alone.
C2_Witness ==
    /\ Finalized
    /\ \A flag \in NameTypeAll : is_none(hist.names[flag])
    /\ is_some(hist.last_version) /\ unwrap(hist.last_version).op = "set_version"
    /\ pkg.version = Some("1.2.3")
    /\ pkg.binnames = <<>>

\* the builders finalize accepts, as the record's requirements
Valid(p) ==
    /\ NonEmpty(p.projectname_seed)
    /\ NonEmpty(p.visiblename)
    /\ NonEmpty(p.version)
    /\ (is_some(p.srcname) \/ is_some(p.binname) \/ Len(p.binnames) > 0)
    /\ ~SetEmpty(p.srcname)
    /\ ~SetEmpty(p.binname)
    /\ \A i \in 1..Len(p.binnames) : p.binnames[i] /= ""

PackageParsingError ==
    { "MissingProjectNameSeed", "EmptyProjectNameSeed", "MissingVisibleName",
      "EmptyVisibleName", "MissingVersion", "EmptyVersion",
      "MissingPackageNames", "EmptySrcName", "EmptyBinName" }

\* C3: finalize returns Ok exactly on the valid builders and an error without
\* a record on all others; a record has a non-empty seed, visible name and
\* version and a srcname, a binname or a binnames entry.
C3_OkIffValid ==
    Finalized =>
        /\ Returned.tag = "Ok" <=> Valid(pkg)
        /\ Returned.tag /= "Ok" =>
              /\ Returned.tag = "Err"
              /\ Returned.error \in PackageParsingError
              /\ DOMAIN Returned = {"tag", "error"}
        /\ Returned.tag = "Ok" =>
              /\ Returned.package.projectname_seed /= ""
              /\ Returned.package.visiblename /= ""
              /\ Returned.package.version /= ""
              /\ \/ is_some(Returned.package.srcname)
                 \/ is_some(Returned.package.binname)
                 \/ Len(Returned.package.binnames) > 0

\* C3 witness: a record made from a builder whose only package name is an
\* entry of binnames.
C3_Witness ==
    /\ Finalized
    /\ Returned.tag = "Ok"
    /\ is_none(pkg.srcname) /\ is_none(pkg.binname)
    /\ is_some(pkg.trackname)
    /\ pkg.binnames = <<"bin">>

\* the checks of finalize in their order, each with whether the builder
\* violates it
CheckOrder(p) ==
    << [error |-> "MissingProjectNameSeed", violated |-> is_none(p.projectname_seed)],
       [error |-> "EmptyProjectNameSeed",   violated |-> SetEmpty(p.projectname_seed)],
       [error |-> "MissingVisibleName",     violated |-> is_none(p.visiblename)],
       [error |-> "EmptyVisibleName",       violated |-> SetEmpty(p.visiblename)],
       [error |-> "MissingVersion",         violated |-> is_none(p.version)],
       [error |-> "EmptyVersion",           violated |-> SetEmpty(p.version)],
       [error |-> "MissingPackageNames",
        violated |-> is_none(p.srcname) /\ is_none(p.binname) /\ Len(p.binnames) = 0],
       [error |-> "EmptySrcName",           violated |-> SetEmpty(p.srcname)],
       [error |-> "EmptyBinName",
        violated |-> \/ SetEmpty(p.binname)
                     \/ \E i \in 1..Len(p.binnames) : p.binnames[i] = ""] >>

Violated(p) == {i \in 1..Len(CheckOrder(p)) : CheckOrder(p)[i].violated}

Earliest(S) == CHOOSE i \in S : \A j \in S : i <= j

\* C4: the error of finalize is that of the earliest violated check.
C4_EarliestCheckWins ==
    (Finalized /\ Violated(pkg) /= {})
        => Returned = Err(CheckOrder(pkg)[Earliest(Violated(pkg))].error)

\* C4 witness: a builder with an empty visible name, an empty version, an
\* empty srcname and an empty binnames entry fails with EmptyVisibleName.
C4_Witness ==
    /\ Finalized
    /\ Cardinality(Violated(pkg)) = 4
    /\ Returned = Err("EmptyVisibleName")
    /\ SetEmpty(pkg.version) /\ SetEmpty(pkg.srcname) /\ pkg.binnames = <<"">>

\* the checks before those of the binary names pass
BinaryChecksReached(p) ==
    /\ NonEmpty(p.projectname_seed) /\ NonEmpty(p.visiblename) /\ NonEmpty(p.version)
    /\ (is_some(p.srcname) \/ is_some(p.binname) \/ Len(p.binnames) > 0)
    /\ ~SetEmpty(p.srcname)

\* the only failed check is an empty entry of binnames
OnlyEmptyBinnamesEntry(p) ==
    /\ BinaryChecksReached(p)
    /\ ~SetEmpty(p.binname)
    /\ \E i \in 1..Len(p.binnames) : p.binnames[i] = ""

\* the builder with an empty binname and no binnames in place of p's
WithOnlyEmptyBinname(p) == [p EXCEPT !.binname = Some(""), !.binnames = <<>>]

\* C5 as stated: a builder whose only failed check is an empty binnames entry
\* gets another error than the builder whose only failed check is an empty
\* binname, and neither gets EmptySrcName.
C5_Original ==
    (Finalized /\ OnlyEmptyBinnamesEntry(pkg)) =>
        /\ Returned /= finalize(WithOnlyEmptyBinname(pkg))
        /\ Returned /= Err("EmptySrcName")
        /\ finalize(WithOnlyEmptyBinname(pkg)) /= Err("EmptySrcName")

\* What finalize does where C5 fails: an empty binname and an empty binnames
\* entry both return EmptyBinName, an error other than the EmptySrcName of an
\* empty srcname.
C5_EmptyBinNameShared ==
    Finalized =>
        /\ (BinaryChecksReached(pkg) /\ SetEmpty(pkg.binname))
              => Returned = Err("EmptyBinName")
        /\ (BinaryChecksReached(pkg) /\ OnlyEmptyBinnamesEntry(pkg))
              => /\ Returned = Err("EmptyBinName")
                 /\ Returned = finalize(WithOnlyEmptyBinname(pkg))
        /\ Returned = Err("EmptyBinName") => ~SetEmpty(pkg.srcname)
        /\ Returned = Err("EmptySrcName") => SetEmpty(pkg.srcname)

\* A builder on which C5 fails: the only failed check is an empty entry of
\* binnames, beside a non-empty binname.
C5_Witness ==
    /\ Finalized
    /\ OnlyEmptyBinnamesEntry(pkg)
    /\ NonEmpty(pkg.binname)
    /\ Returned = Err("EmptyBinName")

\* C6: rawversion is set exactly when version is, and finalize returns a
\* record or an error and never panics.
C6_RawVersionWithVersion ==
    /\ is_some(pkg.rawversion) <=> is_some(pkg.version)
    /\ finalize(pkg).tag \in {"Ok", "Err"}
    /\ panic /= Some("rawversion is expected to be set as long as version is set")
    /\ Finalized => Returned.tag \in {"Ok", "Err"}

\* C6 witness: a record made after set_version_stripped overwrote the pair
\* of a set_version.
C6_Witness ==
    /\ Finalized
    /\ Returned.tag = "Ok"
    /\ unwrap(hist.last_version).op = "set_version_stripped"
    /\ unwrap(hist.before_version) = [rawversion |-> Some(""), version |-> Some("")]
    /\ Returned.package.rawversion = "1.2.3"
    /\ Returned.package.version = "1.2.3"

\* every flag was given a non-empty name, and the last version write was
\* set_version of a non-empty version
AllNamed ==
    /\ \A flag \in NameTypeAll : NonEmpty(hist.names[flag])
    /\ is_some(hist.last_version)
    /\ unwrap(hist.last_version).op = "set_version"
    /\ unwrap(hist.last_version).raw /= ""

\* C7: with every flag given a non-empty name and set_version(v), finalize
\* returns a record that holds each name in the field of its own flag and v
\* as version and rawversion.
C7_NamesReachTheirFields ==
    (Finalized /\ AllNamed) =>
        /\ Returned.tag = "Ok"
        /\ Returned.package.srcname = hist.names[SrcName]
        /\ Returned.package.binname = hist.names[BinName]
        /\ Returned.package.trackname = hist.names[TrackName]
        /\ Returned.package.visiblename = unwrap(hist.names[DisplayName])
        /\ Returned.package.projectname_seed = unwrap(hist.names[ProjectNameSeed])
        /\ Returned.package.version = unwrap(hist.last_version).raw
        /\ Returned.package.rawversion = unwrap(hist.last_version).raw

\* C7 witness: a record made after the flags were given names that differ.
C7_Witness ==
    /\ Finalized /\ AllNamed
    /\ hist.names[SrcName] = Some("foo")
    /\ hist.names[BinName] = Some("bar")
    /\ hist.names[TrackName] = Some("foo")
    /\ hist.names[DisplayName] = Some("bar")
    /\ hist.names[ProjectNameSeed] = Some("foo")
    /\ Returned.package.version = "1.2.3"

\* C8: the stored version pair is the one the most recent version write
\* wrote, and no version write panics.
C8_LastVersionWriteWins ==
    /\ is_none(hist.last_version) => (is_none(pkg.rawversion) /\ is_none(pkg.version))
    /\ is_some(hist.last_version) =>
          /\ pkg.rawversion = Some(unwrap(hist.last_version).raw)
          /\ pkg.version = Some(unwrap(hist.last_version).stripped)
          /\ unwrap(hist.last_version).op = "set_version"
                => pkg.version = pkg.rawversion
    /\ is_some(panic) =>
          unwrap(panic) \in {"SrcName set twice", "BinName set twice",
                             "TrackName set twice", "DisplayName set twice",
                             "ProjectNameSeed set twice"}

\* C8 witness: set_version was made on a builder that held a pair whose
\* version had been stripped to nothing.
C8_Witness ==
    /\ status = "building"
    /\ is_some(hist.last_version)
    /\ unwrap(hist.last_version).op = "set_version"
    /\ unwrap(hist.before_version) = [rawversion |-> Some("1.2.3"), version |-> Some("")]
    /\ pkg.rawversion = Some("1.2.3") /\ pkg.version = Some("1.2.3")

\* C9: the category is the first one any add_category or add_categories
\* call was handed, absent when none was, and so is the record's.
C9_FirstCategoryWins ==
    /\ pkg.category = hist.first_category
    /\ (Finalized /\ Returned.tag = "Ok")
          => Returned.package.category = hist.first_category

\* C9 witness: a builder that recorded "x" has since been handed "y".
C9_Witness ==
    /\ status = "building"
    /\ hist.first_category = Some("x")
    /\ hist.last_category = Some("y")
    /\ pkg.category = Some("x")

\* C10: after set_extra_field_one(name, value) the map holds OneValue(value)
\* at name, whatever it held there, and every other entry as before.
C10_ExtraFieldOneReplaces ==
    (is_some(hist.extra) /\ unwrap(hist.extra).op = "set_extra_field_one") =>
        LET call == unwrap(hist.extra) IN
          /\ DOMAIN pkg.extrafields = DOMAIN call.before \cup {call.name}
          /\ pkg.extrafields[call.name] = OneValue(call.values[1])
          /\ \A k \in DOMAIN call.before \ {call.name} :
                pkg.extrafields[k] = call.before[k]

\* C10 witness: set_extra_field_one("foo", "bar2") was made on a map holding
\* OneValue("bar1") at "foo" and a ManyValues at "baz".
C10_Witness ==
    /\ is_some(hist.extra)
    /\ unwrap(hist.extra).op = "set_extra_field_one"
    /\ unwrap(hist.extra).name = "foo"
    /\ DOMAIN unwrap(hist.extra).before = {"foo", "baz"}
    /\ unwrap(hist.extra).before["foo"] = OneValue("bar1")
    /\ unwrap(hist.extra).before["baz"].tag = "ManyValues"
    /\ pkg.extrafields["foo"] = OneValue("bar2")

\* C11: after set_extra_field_many(name, values) with values not empty the
\* map holds ManyValues of exactly values at name, whatever it held there,
\* and every other entry as before.
C11_ExtraFieldManyReplaces ==
    ( /\ is_some(hist.extra)
      /\ unwrap(hist.extra).op = "set_extra_field_many"
      /\ unwrap(hist.extra).values /= <<>> ) =>
        LET call == unwrap(hist.extra) IN
          /\ DOMAIN pkg.extrafields = DOMAIN call.before \cup {call.name}
          /\ pkg.extrafields[call.name] = ManyValues(call.values)
          /\ pkg.extrafields[call.name].tag = "ManyValues"
          /\ Len(pkg.extrafields[call.name].values) = Len(call.values)
          /\ \A i \in 1..Len(call.values) :
                pkg.extrafields[call.name].values[i] = call.values[i]
          /\ \A k \in DOMAIN call.before \ {call.name} :
                pkg.extrafields[k] = call.before[k]

\* C11 witness: set_extra_field_many("foo", ["bar2", "bar2"]) was made on a
\* map holding ManyValues(["bar1", "bar1"]) at "foo".
C11_Witness ==
    /\ is_some(hist.extra)
    /\ unwrap(hist.extra).op = "set_extra_field_many"
    /\ unwrap(hist.extra).name = "foo"
    /\ unwrap(hist.extra).values = <<"bar2", "bar2">>
    /\ "foo" \in DOMAIN unwrap(hist.extra).before
    /\ unwrap(hist.extra).before["foo"] = ManyValues(<<"bar1", "bar1">>)
    /\ pkg.extrafields["foo"] = ManyValues(<<"bar2", "bar2">>)

\* C12: set_extra_field_many with no values changes nothing: on every builder
\* that can be reached the call returns the builder as it was, and after such
\* a call the map is the map it was made on.
C12_ExtraFieldManyEmptyNoOp ==
    /\ status = "building" =>
          \A name \in ExtraFieldNames : set_extra_field_many(pkg, name, <<>>) = pkg
    /\ ( /\ is_some(hist.extra)
         /\ unwrap(hist.extra).op = "set_extra_field_many"
         /\ unwrap(hist.extra).values = <<>> ) =>
          pkg.extrafields = unwrap(hist.extra).before

\* C12 witness: set_extra_field_many("foo", []) was made on a map holding a
\* OneValue at "foo" and nothing at "baz".
C12_Witness ==
    /\ is_some(hist.extra)
    /\ unwrap(hist.extra).op = "set_extra_field_many"
    /\ unwrap(hist.extra).name = "foo"
    /\ unwrap(hist.extra).values = <<>>
    /\ DOMAIN unwrap(hist.extra).before = {"foo"}
    /\ pkg.extrafields = [k \in {"foo"} |-> OneValue("bar1")]
    /\ is_some(pkg.category)

\* the characters of a URL
Chars(s) == {s[i] : i \in 1..Len(s)}

\* link is the Link Record of the URL url handed in with type link_type
LinkRecordOf(link, link_type, url) ==
    /\ link.type = link_type
    /\ "#" \notin Chars(url) => (link.url = url /\ is_none(link.fragment))
    /\ "#" \in Chars(url) =>
          /\ is_some(link.fragment)
          /\ "#" \notin Chars(link.url)
          /\ link.url \o <<"#">> \o unwrap(link.fragment) = url

\* C13: every URL handed in has appended exactly one Link Record, of its
\* type and split at its first '#'.
C13_LinkSplitAtFirstHash ==
    /\ Len(pkg.links) = Len(hist.urls)
    /\ \A i \in 1..Len(hist.urls) :
          LinkRecordOf(pkg.links[i], hist.urls[i].type, hist.urls[i].url)

\* C13 witness: add_link(UpstreamDownload, "u##") has appended the record
\* with url "u" and fragment "#".
C13_Witness ==
    /\ hist.urls = <<[type |-> "UpstreamDownload", url |-> <<"u", "#", "#">>]>>
    /\ pkg.links = <<Link("UpstreamDownload", <<"u">>, Some(<<"#">>))>>

\* the flags in the order set_names tests them
FlagOrder == <<SrcName, BinName, TrackName, DisplayName, ProjectNameSeed>>

\* the positions in FlagOrder of the flags of name_types whose slot p holds
AlreadySet(p, name_types) ==
    {i \in 1..Len(FlagOrder) :
        FlagOrder[i] \in name_types /\ is_some(p[SlotOf(FlagOrder[i])])}

IdentitySlots == {SlotOf(flag) : flag \in NameTypeAll}

\* C14 as stated: a set_names call that panics has assigned no slot, and the
\* identity slots of a panicked builder are those from before the call.
C14_Original ==
    /\ status = "building" =>
          \A name \in NameValues, name_types \in NameType :
              LET r == set_names(pkg, name, name_types) IN
                is_some(r.panic) =>
                    \A flag \in NameTypeAll : r.pkg[SlotOf(flag)] = pkg[SlotOf(flag)]
    /\ status = "panicked" =>
          \A flag \in NameTypeAll : pkg[SlotOf(flag)] = hist.names[flag]

\* C14: set_names goes through the flags in the order SrcName, BinName,
\* TrackName, DisplayName, ProjectNameSeed. With no named slot set it assigns
\* the name to every named slot and returns; otherwise it panics at the first
\* named slot that is set, having assigned the name to the named slots before
\* it and to none from it on. It touches no other field.
C14_PanicsAtFirstSetSlot ==
    status = "building" =>
        \A name \in NameValues, name_types \in NameType :
            LET r   == set_names(pkg, name, name_types)
                set == AlreadySet(pkg, name_types)
            IN  /\ \A f \in DOMAIN pkg \ IdentitySlots : r.pkg[f] = pkg[f]
                /\ set = {} =>
                      /\ is_none(r.panic)
                      /\ \A flag \in NameTypeAll :
                            r.pkg[SlotOf(flag)] =
                                IF flag \in name_types THEN Some(name)
                                ELSE pkg[SlotOf(flag)]
                /\ set /= {} =>
                      LET k == CHOOSE i \in set : \A j \in set : i <= j IN
                        /\ r.panic = Some(FlagOrder[k] \o " set twice")
                        /\ \A i \in 1..Len(FlagOrder) :
                              r.pkg[SlotOf(FlagOrder[i])] =
                                  IF i < k /\ FlagOrder[i] \in name_types
                                  THEN Some(name)
                                  ELSE pkg[SlotOf(FlagOrder[i])]

\* C14 witness: a call naming BinName (unset) and TrackName (set) has
\* panicked at TrackName with binname assigned.
C14_Witness ==
    /\ status = "panicked"
    /\ panic = Some("TrackName set twice")
    /\ hist.names[BinName] = None
    /\ hist.names[TrackName] = Some("foo")
    /\ pkg.binname = Some("bar")
    /\ pkg.trackname = Some("foo")

\* the identity slots of builder q are those of builder p
SameIdentity(p, q) == \A slot \in IdentitySlots : q[slot] = p[slot]

\* a step that does not panic leaves every identity slot that is set as it is
KeepsSetSlots ==
    status' /= "panicked" =>
        \A slot \in IdentitySlots : is_some(pkg[slot]) => pkg'[slot] = pkg[slot]

\* no operation but set_names writes an identity slot of builder p
OnlySetNamesWritesSlots(p) ==
    /\ \A binnames \in BinNameLists : SameIdentity(p, add_binnames(p, binnames))
    /\ \A version \in VersionValues :
          /\ SameIdentity(p, set_version(p, version))
          /\ \A stripper \in VersionStripper :
                SameIdentity(p, set_version_stripped(p, version, stripper))
    /\ \A summary \in SummaryValues : SameIdentity(p, set_summary(p, summary))
    /\ \A maintainer \in MaintainerValues :
          SameIdentity(p, add_maintainer(p, maintainer))
    /\ \A maintainers \in MaintainerLists :
          SameIdentity(p, add_maintainers(p, maintainers))
    /\ \A category \in CategoryValues : SameIdentity(p, add_category(p, category))
    /\ \A categories \in CategoryLists :
          SameIdentity(p, add_categories(p, categories))
    /\ \A link_type \in LinkType :
          /\ \A url \in Urls : SameIdentity(p, add_link(p, link_type, url))
          /\ \A url \in Urls : \A urls \in {<<>>, <<url>>, <<url, url>>} :
                SameIdentity(p, add_links(p, link_type, urls))
    /\ \A name \in ExtraFieldNames :
          /\ \A value \in ExtraFieldValues :
                SameIdentity(p, set_extra_field_one(p, name, value))
          /\ \A values \in ExtraFieldLists :
                SameIdentity(p, set_extra_field_many(p, name, values))

\* the identity fields of the record finalize returned are the builder's slots
RecordKeepsSlots ==
    (Finalized /\ Returned.tag = "Ok") =>
        /\ Returned.package.srcname = pkg.srcname
        /\ Returned.package.binname = pkg.binname
        /\ Returned.package.trackname = pkg.trackname
        /\ Some(Returned.package.visiblename) = pkg.visiblename
        /\ Some(Returned.package.projectname_seed) = pkg.projectname_seed

\* C15: while no call panics, an identity slot that is set keeps its value in
\* every later state and in the record finalize returns; the operations
\* other than set_names leave the identity slots of every builder as they
\* are.
C15_IdentitySlotsWriteOnce ==
    /\ [][KeepsSetSlots]_vars
    /\ [](status = "building" => OnlySetNamesWritesSlots(pkg))
    /\ []RecordKeepsSlots

\* C15 witness: a record returned after srcname and trackname were set by
\* different set_names calls, with the values those calls gave.
C15_Witness ==
    /\ Finalized /\ Returned.tag = "Ok"
    /\ hist.names[SrcName] = Some("foo")
    /\ hist.names[TrackName] = Some("")
    /\ Returned.package.srcname = Some("foo")
    /\ Returned.package.trackname = Some("")

\* s is a prefix of t
IsPrefix(s, t) == Len(s) <= Len(t) /\ SubSeq(t, 1, Len(s)) = s

\* the Link Record add_link makes of a URL
LinkOf(link_type, url) == add_link(PackageMaker, link_type, url).links[1]

\* a step only ever extends the three lists
ListsOnlyGrow ==
    /\ IsPrefix(pkg.binnames, pkg'.binnames)
    /\ IsPrefix(pkg.maintainers, pkg'.maintainers)
    /\ IsPrefix(pkg.links, pkg'.links)

\* the lists hold what the calls so far were given, call after call
ListsHoldAllGiven ==
    /\ pkg.binnames = hist.binnames
    /\ pkg.maintainers = hist.maintainers
    /\ Len(pkg.links) = Len(hist.urls)
    /\ \A i \in 1..Len(hist.urls) :
          pkg.links[i] = LinkOf(hist.urls[i].type, hist.urls[i].url)

\* on builder p, each list operation appends what it is given, as given
ListsExtendedAsGiven(p) ==
    /\ \A binnames \in BinNameLists :
          add_binnames(p, binnames).binnames = p.binnames \o binnames
    /\ \A maintainer \in MaintainerValues :
          add_maintainer(p, maintainer).maintainers = Append(p.maintainers, maintainer)
    /\ \A maintainers \in MaintainerLists :
          add_maintainers(p, maintainers).maintainers = p.maintainers \o maintainers
    /\ \A link_type \in LinkType, url \in Urls :
          \A urls \in {<<>>, <<url>>, <<url, url>>, <<url, <<"u">>>>} :
              add_links(p, link_type, urls).links =
                  p.links \o [i \in 1..Len(urls) |-> LinkOf(link_type, urls[i])]

\* C16: every step leaves the old contents of binnames, maintainers and links
\* as a prefix of the new; the lists hold exactly what was handed in, in
\* order and with duplicates; add_binnames, add_maintainers and add_links
\* append what they are given, add_links the records add_link makes.
C16_ListsAppendOnly ==
    /\ [][ListsOnlyGrow]_vars
    /\ []ListsHoldAllGiven
    /\ [](status = "building" => ListsExtendedAsGiven(pkg))

\* C16 witness: the same maintainer was added twice, after a binary name and
\* a link, and the list holds both.
C16_Witness ==
    /\ hist.maintainers = <<"m1", "m1">>
    /\ pkg.maintainers = <<"m1", "m1">>
    /\ pkg.binnames = <<"bin">>
    /\ Len(pkg.links) = 1

\* the fields finalize unwraps on the way into the record
UnwrappedFields == {"projectname_seed", "visiblename", "version", "rawversion"}

\* record r holds every field of builder p as the builder holds it
CopyOf(r, p) ==
    /\ DOMAIN r = DOMAIN p
    /\ \A f \in DOMAIN p \ UnwrappedFields : r[f] = p[f]
    /\ \A f \in UnwrappedFields : Some(r[f]) = p[f]
    /\ \A f \in DOMAIN p \ UnwrappedFields :
          p[f] = PackageMaker[f] => r[f] = PackageMaker[f]

\* builder p made into the package of the tests
TestPackage(p) == set_version(set_names(p, "foobar", NameTypeAll).pkg, "1.2.3")

\* C17: the record finalize returns holds every field of the builder as the
\* builder held it at the call, a field never set being as in a new builder;
\* so does the record of a builder without names that is given a binary name
\* twice more and then made the package of the tests.
C17_RecordIsCopyOfBuilder ==
    /\ (Finalized /\ Returned.tag = "Ok") => CopyOf(Returned.package, pkg)
    /\ (status = "building" /\ NoNames(pkg)) =>
          \A binname \in BinNameValues \ {""} :
              LET p == TestPackage(add_binnames(pkg, <<binname, binname>>))
                  r == finalize(p)
              IN  r.tag = "Ok" /\ CopyOf(r.package, p)

\* C17 witness: a record with two maintainers, a binary name, a link with a
\* fragment, a category and an extra field, and no summary.
C17_Witness ==
    /\ Finalized /\ Returned.tag = "Ok"
    /\ Returned.package.binnames = <<"bin">>
    /\ Returned.package.maintainers = <<"m2", "m1">>
    /\ Returned.package.links =
          <<Link("UpstreamDownload", <<"u">>, Some(<<"u">>))>>
    /\ Returned.package.category = Some("x")
    /\ Returned.package.extrafields = [k \in {"foo"} |-> OneValue("bar1")]
    /\ Returned.package.rawversion = "1.2.3"
    /\ Returned.package.comment = None

\* the last version write was set_version_stripped
LastWriteStripped ==
    is_some(hist.last_version) /\ unwrap(hist.last_version).op = "set_version_stripped"

\* C18: after set_version_stripped(raw, stripper) with raw non-empty and the
\* stripped version empty, finalize of a builder with a non-empty seed and
\* visible name returns EmptyVersion; a record returned after
\* set_version_stripped holds raw as rawversion and the stripped version as
\* version, the latter non-empty.
C18_EmptinessOfStrippedVersion ==
    /\ ( /\ Finalized /\ LastWriteStripped
         /\ unwrap(hist.last_version).raw /= ""
         /\ unwrap(hist.last_version).stripped = ""
         /\ NonEmpty(pkg.projectname_seed) /\ NonEmpty(pkg.visiblename) )
            => Returned = Err("EmptyVersion")
    /\ (Finalized /\ LastWriteStripped /\ Returned.tag = "Ok") =>
          /\ Returned.package.rawversion = unwrap(hist.last_version).raw
          /\ Returned.package.version = unwrap(hist.last_version).stripped
          /\ Returned.package.version /= ""

\* C18 witness: finalize has returned EmptyVersion for a named builder whose
\* raw version "1.2.3" was stripped to nothing.
C18_Witness ==
    /\ Finalized /\ LastWriteStripped
    /\ unwrap(hist.last_version) =
          [op |-> "set_version_stripped", raw |-> "1.2.3", stripped |-> ""]
    /\ pkg.rawversion = Some("1.2.3")
    /\ NonEmpty(pkg.projectname_seed) /\ NonEmpty(pkg.visiblename)
    /\ NonEmpty(pkg.srcname)
    /\ Returned = Err("EmptyVersion")

\* C20: on every builder that can be reached, set_names with no flag returns
\* without a panic and with the builder as it was, and a set_names that
\* follows it for a flag whose slot is unset returns with that slot set.
C20_NoFlagsNoEffect ==
    status = "building" =>
        \A name \in NameValues :
            LET r == set_names(pkg, name, NameTypeEmpty) IN
              /\ is_none(r.panic)
              /\ r.pkg = pkg
              /\ \A flag \in NameTypeAll, later \in NameValues :
                    is_none(pkg[SlotOf(flag)]) =>
                        LET n == set_names(r.pkg, later, {flag}) IN
                          /\ is_none(n.panic)
                          /\ n.pkg[SlotOf(flag)] = Some(later)

\* C20 witness: a builder with all five slots set, to names that differ, on
\* which set_names with no flag returns.
C20_Witness ==
    /\ status = "building"
    /\ \A flag \in NameTypeAll : is_some(pkg[SlotOf(flag)])
    /\ pkg.srcname = Some("foo") /\ pkg.binname = Some("bar")
    /\ is_none(set_names(pkg, "bar", NameTypeEmpty).panic)
    /\ set_names(pkg, "bar", NameTypeEmpty).pkg = pkg

\* The operations C19 is about, each with its arguments: set_names for each
\* single flag and for some sets of flags.
OperationNameTypes ==
    {{flag} : flag \in NameTypeAll}
    \cup {{SrcName, BinName}, {TrackName, DisplayName, ProjectNameSeed}, NameTypeAll}

Operations ==
    [op : {"set_names"}, name : RecordNames, name_types : OperationNameTypes]
    \cup [op : {"set_version"}, version : VersionValues]
    \cup [op : {"add_category"}, category : CategoryValues]
    \cup [op : {"add_link"}, link_type : LinkType, url : RecordUrls \cup {<<"u">>}]
    \cup [op : {"add_binnames"}, binnames : {<<"">>, <<"bin", "bin">>}]
    \cup [op : {"add_maintainer"}, maintainer : MaintainerValues]
    \cup [op : {"set_extra_field_one"}, name : ExtraFieldNames, value : ExtraFieldValues]
    \cup [op : {"set_extra_field_many"}, name : ExtraFieldNames,
           values : {<<>>, <<"bar1", "bar2">>}]

\* the builder operation o leaves of builder p, and its panic if it panicked
Applied(p, o) ==
    LET returned(q) == [pkg |-> q, panic |-> None] IN
    CASE o.op = "set_names"      -> set_names(p, o.name, o.name_types)
      [] o.op = "set_version"    -> returned(set_version(p, o.version))
      [] o.op = "add_category"   -> returned(add_category(p, o.category))
      [] o.op = "add_link"       -> returned(add_link(p, o.link_type, o.url))
      [] o.op = "add_binnames"   -> returned(add_binnames(p, o.binnames))
      [] o.op = "add_maintainer" -> returned(add_maintainer(p, o.maintainer))
      [] o.op = "set_extra_field_one" ->
            returned(set_extra_field_one(p, o.name, o.value))
      [] o.op = "set_extra_field_many" ->
            returned(set_extra_field_many(p, o.name, o.values))

\* what operation o targets: fields of the builder, or a key of extrafields
Targets(o) ==
    CASE o.op = "set_names"      -> {SlotOf(flag) : flag \in o.name_types}
      [] o.op = "set_version"    -> {"rawversion", "version"}
      [] o.op = "add_category"   -> {"category"}
      [] o.op = "add_link"       -> {"links"}
      [] o.op = "add_binnames"   -> {"binnames"}
      [] o.op = "add_maintainer" -> {"maintainers"}
      [] o.op \in {"set_extra_field_one", "set_extra_field_many"} ->
            {"extrafields." \o o.name}

\* on builder p, a then b leaves what b then a leaves
Commute(p, a, b) ==
    LET pa == Applied(p, a)
        pb == Applied(p, b)
    IN  (is_none(pa.panic) /\ is_none(pb.panic)) =>
            LET pab == Applied(pa.pkg, b)
                pba == Applied(pb.pkg, a)
            IN  /\ is_none(pab.panic) /\ is_none(pba.panic)
                /\ pab.pkg = pba.pkg
                /\ finalize(pab.pkg) = finalize(pba.pkg)

\* the pairs of operations that target different fields
IndependentOperations ==
    {ab \in Operations \X Operations : Targets(ab[1]) \cap Targets(ab[2]) = {}}

\* C19: on every builder that can be reached, two operations that target
\* different fields and do not panic leave the same builder, and so the same
\* result of finalize, in either order.
C19_IndependentOperationsCommute ==
    status = "building" =>
        \A ab \in IndependentOperations : Commute(pkg, ab[1], ab[2])

\* C19 witness: a builder with srcname and binname set, a maintainer and a
\* link, on which set_names for the other three flags and add_category, in
\* either order, leave the same builder, one that finalize makes a record of.
C19_Witness ==
    LET a == [op |-> "set_names", name |-> "foo",
              name_types |-> {TrackName, DisplayName, ProjectNameSeed}]
        b == [op |-> "add_category", category |-> "y"]
        s == [op |-> "set_version", version |-> "1.2.3"]
        ab == Applied(Applied(pkg, a).pkg, b).pkg
        ba == Applied(Applied(pkg, b).pkg, a).pkg
    IN  /\ status = "building"
        /\ pkg.srcname = Some("foo") /\ pkg.binname = Some("foo")
        /\ pkg.maintainers = <<"m1">> /\ Len(pkg.links) = 1
        /\ is_none(pkg.category)
        /\ ab = ba /\ ab /= pkg
        /\ ab.category = Some("y") /\ ab.trackname = Some("foo")
        /\ finalize(Applied(ab, s).pkg).tag = "Ok"

====
